---- MODULE Spec2Model ----
(***************************************************************************)
(* Order / Bot / Controller engine: the order registry (OrderManager) with *)
(* its three pending queues, completed list and synchronous publish /      *)
(* subscribe channel, the Bot with its per-second countdown interval, and  *)
(* the Controller that owns the bot stack and wakes idle bots on           *)
(* ORDER_ADDED.  JavaScript is single threaded: every public call and      *)
(* every timer callback runs to completion, so each is one action.         *)
(***************************************************************************)
EXTENDS Integers, Sequences, FiniteSets, TLC

\* ---- bounds of the model ----
MaxOrders == 2
MaxBots == 2
MaxApiCalls == 2

\* ---- program constants ----
VipTicks == 5
NormalTicks == 10
Null == -1

PENDING == "PENDING"
COMPLETE == "COMPLETE"
NORMAL == "NORMAL"
VIP == "VIP"
RUN == "RUN"
IDLE == "IDLE"
ORDER_ADDED == "ORDER_ADDED"
ORDER_UPDATED == "ORDER_UPDATED"
ORDER_COUNTER == "ORDER_COUNTER"

VARIABLES
  orders,            \* uid -> the Order object [orderType, status, counter]
  queueCache,        \* OrderManager.queueCache, sequence of order uids
  queueVipOrder,     \* OrderManager.queueVipOrder
  queueNormalOrder,  \* OrderManager.queueNormalOrder
  queueComplete,     \* OrderManager.queueComplete
  messageQueue,      \* OrderManager.messageQueue, subscribers in registration order
  bots,              \* uid -> the Bot object, managed or already destroyed
  queue,             \* Controller.queue, sequence of bot uids
  timers,            \* live setInterval timers, <<bot uid, uid of the captured nextOrder>>
  apiCalls           \* number of direct completeOrder / updateCache calls so far

vars == <<orders, queueCache, queueVipOrder, queueNormalOrder, queueComplete,
          messageQueue, bots, queue, timers, apiCalls>>

\* ---- helpers over sequences ----
Range(q) == {q[i] : i \in 1..Len(q)}

Count(q, x) == Cardinality({i \in 1..Len(q) : q[i] = x})

IndexOf(q, x) == CHOOSE i \in 1..Len(q) : q[i] = x

Unshift(q, x) == <<x>> \o q

Pop(q) == SubSeq(q, 1, Len(q) - 1)

OrderUids == DOMAIN orders

BotUids == DOMAIN bots

\* The whole program state as one record, threaded through the calls of one operation.
\* Three more fields log what the operation does on the way: delivered, per
\* subscriber the event types it is called with; seen, per subscriber where the
\* newest order is when ORDER_ADDED reaches it; dqs, the calls of
\* OrderManager.processNextOrder with the pending queues before and after.
State ==
  [orders |-> orders, queueCache |-> queueCache, queueVipOrder |-> queueVipOrder,
   queueNormalOrder |-> queueNormalOrder, queueComplete |-> queueComplete,
   messageQueue |-> messageQueue, bots |-> bots, queue |-> queue, timers |-> timers,
   delivered |-> [i \in 1..Len(messageQueue) |-> <<>>],
   seen |-> [i \in 1..Len(messageQueue) |-> "none"],
   dqs |-> <<>>]

\* ---- OrderManager ----
\* Faulty variant of getOrderList: the normal queue listed before the VIP queue.
GetOrderListNormalFirst(s) ==
  s.queueCache \o s.queueNormalOrder \o s.queueVipOrder \o s.queueComplete

\* Faulty variant of getOrderList: the orders the bots are working on are listed too.
GetOrderListWithHeld(s) ==
  s.queueCache \o s.queueVipOrder \o s.queueNormalOrder \o s.queueComplete
    \o [k \in 1..Len(s.queue) |-> s.bots[s.queue[k]].currentOrder]

\* [...queueCache, ...queueVipOrder, ...queueNormalOrder, ...queueComplete]
GetOrderList(s) ==
  s.queueCache \o s.queueVipOrder \o s.queueNormalOrder \o s.queueComplete

Subscribe(mq, callback) == Append(mq, callback)

RECURSIVE PublishFrom(_, _, _)

\* Faulty variant of publish: the first registered subscriber is not called.
PublishSkipFirst(s, ev) == PublishFrom(s, ev, 2)

Publish(s, ev) == PublishFrom(s, ev, 1)

\* Faulty variant of the dequeue: the normal queue tried before the VIP queue.
ShiftNextWrongPriority(s) ==
  IF s.queueCache # <<>>
    THEN [st |-> [s EXCEPT !.queueCache = Tail(@)], order |-> Head(s.queueCache)]
  ELSE IF s.queueNormalOrder # <<>>
    THEN [st |-> [s EXCEPT !.queueNormalOrder = Tail(@)], order |-> Head(s.queueNormalOrder)]
  ELSE IF s.queueVipOrder # <<>>
    THEN [st |-> [s EXCEPT !.queueVipOrder = Tail(@)], order |-> Head(s.queueVipOrder)]
  ELSE [st |-> s, order |-> Null]

\* Faulty variant of the dequeue: the head is returned but stays in its queue.
ShiftNextPeek(s) ==
  IF s.queueCache # <<>>
    THEN [st |-> s, order |-> Head(s.queueCache)]
  ELSE IF s.queueVipOrder # <<>>
    THEN [st |-> s, order |-> Head(s.queueVipOrder)]
  ELSE IF s.queueNormalOrder # <<>>
    THEN [st |-> s, order |-> Head(s.queueNormalOrder)]
  ELSE [st |-> s, order |-> Null]

\* Faulty variant of the dequeue: the recovery queue is served from its tail.
ShiftNextCacheTail(s) ==
  IF s.queueCache # <<>>
    THEN [st |-> [s EXCEPT !.queueCache = Pop(@)], order |-> s.queueCache[Len(s.queueCache)]]
  ELSE IF s.queueVipOrder # <<>>
    THEN [st |-> [s EXCEPT !.queueVipOrder = Tail(@)], order |-> Head(s.queueVipOrder)]
  ELSE IF s.queueNormalOrder # <<>>
    THEN [st |-> [s EXCEPT !.queueNormalOrder = Tail(@)], order |-> Head(s.queueNormalOrder)]
  ELSE [st |-> s, order |-> Null]

\* Faulty variant of the dequeue: the VIP and normal queues are served from their tails.
ShiftNextNewestFirst(s) ==
  IF s.queueCache # <<>>
    THEN [st |-> [s EXCEPT !.queueCache = Tail(@)], order |-> Head(s.queueCache)]
  ELSE IF s.queueVipOrder # <<>>
    THEN [st |-> [s EXCEPT !.queueVipOrder = Pop(@)],
          order |-> s.queueVipOrder[Len(s.queueVipOrder)]]
  ELSE IF s.queueNormalOrder # <<>>
    THEN [st |-> [s EXCEPT !.queueNormalOrder = Pop(@)],
          order |-> s.queueNormalOrder[Len(s.queueNormalOrder)]]
  ELSE [st |-> s, order |-> Null]

\* queueCache.shift() || queueVipOrder.shift() || queueNormalOrder.shift()
ShiftNext(s) ==
  IF s.queueCache # <<>>
    THEN [st |-> [s EXCEPT !.queueCache = Tail(@)], order |-> Head(s.queueCache)]
  ELSE IF s.queueVipOrder # <<>>
    THEN [st |-> [s EXCEPT !.queueVipOrder = Tail(@)], order |-> Head(s.queueVipOrder)]
  ELSE IF s.queueNormalOrder # <<>>
    THEN [st |-> [s EXCEPT !.queueNormalOrder = Tail(@)], order |-> Head(s.queueNormalOrder)]
  ELSE [st |-> s, order |-> Null]

Pending(s) == <<s.queueCache, s.queueVipOrder, s.queueNormalOrder>>

OMProcessNextOrder(s) ==
  LET r == ShiftNext(s)
      call == [pre |-> Pending(s), ret |-> r.order, post |-> Pending(r.st)]
      s1 == [r.st EXCEPT !.dqs = Append(@, call)]
  IN [st |-> IF r.order # Null THEN Publish(s1, ORDER_UPDATED) ELSE s1,
      order |-> r.order]

\* Faulty variant of completeOrder: the order is pushed without its status being set.
CompleteOrderKeepStatus(s, o) ==
  Publish([s EXCEPT !.queueComplete = Append(@, o)], ORDER_UPDATED)

OMCompleteOrder(s, o) ==
  Publish([s EXCEPT !.orders[o].status = COMPLETE,
                    !.queueComplete = Append(@, o)],
          ORDER_UPDATED)

\* Faulty variant of updateCache: push instead of unshift.
UpdateCacheAtTail(s, o) ==
  Publish([s EXCEPT !.queueCache = Append(@, o)], ORDER_UPDATED)

OMUpdateCache(s, o) ==
  Publish([s EXCEPT !.queueCache = Unshift(@, o)], ORDER_UPDATED)

\* ---- Bot ----
\* nextOrder.counter = this.type === BOT_TYPE.VIP ? 5 : 10, type being the bot's
Duration(type) == IF type = VIP THEN VipTicks ELSE NormalTicks

NewBot(type) ==
  [type |-> type, status |-> IDLE, currentOrder |-> Null, counterHandle |-> Null,
   isDestroyed |-> FALSE, elapsed |-> 0]

\* Faulty variant of Bot.updateOrder: the status is left as it was.
BotUpdateOrderKeepStatus(s, b, o) ==
  [s EXCEPT !.bots[b].currentOrder = o]

BotUpdateOrder(s, b, o) ==
  [s EXCEPT !.bots[b].status = RUN, !.bots[b].currentOrder = o]

BotCompleteOrder(s, b) ==
  IF s.bots[b].currentOrder = Null THEN s
  ELSE LET s1 == OMCompleteOrder(s, s.bots[b].currentOrder)
       IN [s1 EXCEPT !.bots[b].currentOrder = Null]

\* Faulty variant of Bot.processNextOrder: the countdown chosen by the order's type.
BotProcessNextOrderItemCategory(s, b) ==
  LET r == OMProcessNextOrder(s)
  IN IF r.order = Null
       THEN [r.st EXCEPT !.bots[b].status = IDLE]
       ELSE LET s1 == BotUpdateOrder(r.st, b, r.order)
                s2 == [s1 EXCEPT !.orders[r.order].counter = Duration(s1.orders[r.order].orderType),
                                 !.bots[b].elapsed = 0]
                s3 == Publish(s2, ORDER_COUNTER)
            IN [s3 EXCEPT !.bots[b].counterHandle = r.order,
                          !.timers = @ \cup {<<b, r.order>>}]

BotProcessNextOrder(s, b) ==
  LET r == OMProcessNextOrder(s)
  IN IF r.order = Null
       THEN [r.st EXCEPT !.bots[b].status = IDLE]
       ELSE LET s1 == BotUpdateOrder(r.st, b, r.order)
                s2 == [s1 EXCEPT !.orders[r.order].counter = Duration(s1.bots[b].type),
                                 !.bots[b].elapsed = 0]
                s3 == Publish(s2, ORDER_COUNTER)
            IN [s3 EXCEPT !.bots[b].counterHandle = r.order,
                          !.timers = @ \cup {<<b, r.order>>}]

\* clearInterval / clearTimeout of this.counterHandle; elapsed counts the ticks the
\* bot's current timer has fired and is not a field of the program.
ClearTimer(s, b) ==
  IF s.bots[b].counterHandle = Null THEN s
  ELSE [s EXCEPT !.timers = @ \ {<<b, s.bots[b].counterHandle>>}, !.bots[b].elapsed = 0]

\* Faulty variant of Bot.destroy: the interval is left running.
BotDestroyKeepTimer(s, b) ==
  IF s.bots[b].currentOrder = Null THEN s
  ELSE LET s2 == OMUpdateCache(s, s.bots[b].currentOrder)
       IN [s2 EXCEPT !.bots[b].currentOrder = Null,
                     !.bots[b].status = IDLE,
                     !.bots[b].isDestroyed = TRUE]

\* Faulty variant of Bot.destroy: ORDER_UPDATED is published for an idle bot too.
BotDestroyPublishIdle(s, b) ==
  LET s1 == ClearTimer(s, b)
  IN IF s1.bots[b].currentOrder = Null THEN Publish(s1, ORDER_UPDATED)
     ELSE LET s2 == OMUpdateCache(s1, s1.bots[b].currentOrder)
          IN [s2 EXCEPT !.bots[b].currentOrder = Null,
                        !.bots[b].status = IDLE,
                        !.bots[b].isDestroyed = TRUE]

BotDestroy(s, b) ==
  LET s1 == ClearTimer(s, b)
  IN IF s1.bots[b].currentOrder = Null THEN s1
     ELSE LET s2 == OMUpdateCache(s1, s1.bots[b].currentOrder)
          IN [s2 EXCEPT !.bots[b].currentOrder = Null,
                        !.bots[b].status = IDLE,
                        !.bots[b].isDestroyed = TRUE]

\* Faulty variant of the interval callback: no processNextOrder after the completion.
IntervalCallbackNoContinue(s, b, o) ==
  LET s1 == [s EXCEPT !.orders[o].counter = @ - 1, !.bots[b].elapsed = @ + 1]
      s2 == Publish(s1, ORDER_COUNTER)
  IN IF s2.orders[o].counter = 0
       THEN LET s3 == BotCompleteOrder(ClearTimer(s2, b), b)
            IN [s3 EXCEPT !.bots[b].status = IDLE]
       ELSE s2

\* Faulty variant of the interval callback: the completion test is counter < 0.
IntervalCallbackCompleteBelowZero(s, b, o) ==
  LET s1 == [s EXCEPT !.orders[o].counter = @ - 1, !.bots[b].elapsed = @ + 1]
      s2 == Publish(s1, ORDER_COUNTER)
  IN IF s2.orders[o].counter < 0
       THEN BotProcessNextOrder(BotCompleteOrder(ClearTimer(s2, b), b), b)
       ELSE s2

\* The setInterval callback of bot b, whose closure captured order o as nextOrder.
IntervalCallback(s, b, o) ==
  LET s1 == [s EXCEPT !.orders[o].counter = @ - 1, !.bots[b].elapsed = @ + 1]
      s2 == Publish(s1, ORDER_COUNTER)
  IN IF s2.orders[o].counter = 0
       THEN BotProcessNextOrder(BotCompleteOrder(ClearTimer(s2, b), b), b)
       ELSE s2

\* ---- Controller ----
HasIdleBot(s) == \E k \in 1..Len(s.queue) : s.bots[s.queue[k]].status = IDLE

RECURSIVE WakeFrom(_, _)
WakeFrom(s, k) ==
  IF k > Len(s.queue) THEN s
  ELSE WakeFrom(IF s.bots[s.queue[k]].status = IDLE
                  THEN BotProcessNextOrder(s, s.queue[k])
                  ELSE s,
                k + 1)

\* Faulty variant of the Controller's handler: the idle bots are nudged newest first.
RECURSIVE WakeDownFrom(_, _)
WakeDownFrom(s, k) ==
  IF k < 1 THEN s
  ELSE WakeDownFrom(IF s.bots[s.queue[k]].status = IDLE
                      THEN BotProcessNextOrder(s, s.queue[k])
                      ELSE s,
                    k - 1)

ControllerSubscriberNewestFirst(s, ev) ==
  IF ev = ORDER_ADDED /\ HasIdleBot(s) THEN WakeDownFrom(s, Len(s.queue)) ELSE s

ControllerSubscriber(s, ev) ==
  IF ev = ORDER_ADDED /\ HasIdleBot(s) THEN WakeFrom(s, 1) ELSE s

\* ---- an external subscriber: it looks the newest order up when ORDER_ADDED arrives ----
Newest(s) == Cardinality(DOMAIN s.orders) - 1

Whereabouts(s, o) ==
  IF o \in Range(GetOrderList(s)) THEN "listed"
  ELSE IF \E k \in 1..Len(s.queue) : s.bots[s.queue[k]].currentOrder = o THEN "held"
  ELSE "absent"

ObserverSubscriber(s, i, ev) ==
  IF ev = ORDER_ADDED THEN [s EXCEPT !.seen[i] = Whereabouts(s, Newest(s))] ELSE s

Task(s, i, ev) ==
  LET s1 == [s EXCEPT !.delivered[i] = Append(@, ev)]
  IN IF s.messageQueue[i] = "controller"
       THEN ControllerSubscriber(s1, ev)
       ELSE ObserverSubscriber(s1, i, ev)

PublishFrom(s, ev, i) ==
  IF i > Len(s.messageQueue) THEN s
  ELSE PublishFrom(Task(s, i, ev), ev, i + 1)

\* ---- operations ----
\* Faulty variant of createNormalOrder / createVipOrder: publish before the push.
CreateOrderPublishFirst(s, type) ==
  LET uid == Cardinality(DOMAIN s.orders)
      order == [orderType |-> type, status |-> PENDING, counter |-> 0]
      s1 == [s EXCEPT !.orders = [u \in 0..uid |-> IF u = uid THEN order ELSE s.orders[u]]]
      s2 == Publish(s1, ORDER_ADDED)
  IN IF type = VIP
       THEN [s2 EXCEPT !.queueVipOrder = Append(@, uid)]
       ELSE [s2 EXCEPT !.queueNormalOrder = Append(@, uid)]

\* Faulty variant of createNormalOrder / createVipOrder: one uid counter per category.
CreateOrderCounterPerCategory(s, type) ==
  LET uid == Cardinality({o \in DOMAIN s.orders : s.orders[o].orderType = type})
      order == [orderType |-> type, status |-> PENDING, counter |-> 0]
      s1 == [s EXCEPT !.orders = [u \in (DOMAIN s.orders) \cup {uid} |->
                                    IF u = uid THEN order ELSE s.orders[u]]]
      s2 == IF type = VIP
              THEN [s1 EXCEPT !.queueVipOrder = Append(@, uid)]
              ELSE [s1 EXCEPT !.queueNormalOrder = Append(@, uid)]
  IN Publish(s2, ORDER_ADDED)

\* createNormalOrder / createVipOrder: new Order, push on its queue, publish ORDER_ADDED.
CreateOrder(s, type) ==
  LET uid == Cardinality(DOMAIN s.orders)
      order == [orderType |-> type, status |-> PENDING, counter |-> 0]
      s1 == [s EXCEPT !.orders = [u \in 0..uid |-> IF u = uid THEN order ELSE s.orders[u]]]
      s2 == IF type = VIP
              THEN [s1 EXCEPT !.queueVipOrder = Append(@, uid)]
              ELSE [s1 EXCEPT !.queueNormalOrder = Append(@, uid)]
  IN Publish(s2, ORDER_ADDED)

\* Faulty variant of increase: the bot is pushed without its constructor's pickup.
ControllerIncreaseNoPickup(s, type) ==
  LET uid == Cardinality(DOMAIN s.bots)
      s1 == [s EXCEPT !.bots = [b \in 0..uid |-> IF b = uid THEN NewBot(type) ELSE s.bots[b]]]
  IN [s1 EXCEPT !.queue = Append(@, uid)]

\* increase: the Bot constructor calls processNextOrder before the bot is pushed.
ControllerIncrease(s, type) ==
  LET uid == Cardinality(DOMAIN s.bots)
      s1 == [s EXCEPT !.bots = [b \in 0..uid |-> IF b = uid THEN NewBot(type) ELSE s.bots[b]]]
      s2 == BotProcessNextOrder(s1, uid)
  IN [s2 EXCEPT !.queue = Append(@, uid)]

\* Faulty variant of decrease: the oldest bot is removed (shift instead of pop).
ControllerDecreaseOldest(s) ==
  IF s.queue = <<>> THEN s
  ELSE BotDestroy([s EXCEPT !.queue = Tail(@)], s.queue[1])

\* decrease: queue.pop() then bot?.destroy().
ControllerDecrease(s) ==
  IF s.queue = <<>> THEN s
  ELSE LET b == s.queue[Len(s.queue)]
       IN BotDestroy([s EXCEPT !.queue = Pop(@)], b)

Commit(s) ==
  /\ orders' = s.orders
  /\ queueCache' = s.queueCache
  /\ queueVipOrder' = s.queueVipOrder
  /\ queueNormalOrder' = s.queueNormalOrder
  /\ queueComplete' = s.queueComplete
  /\ messageQueue' = s.messageQueue
  /\ bots' = s.bots
  /\ queue' = s.queue
  /\ timers' = s.timers

Init ==
  /\ orders = <<>>
  /\ queueCache = <<>>
  /\ queueVipOrder = <<>>
  /\ queueNormalOrder = <<>>
  /\ queueComplete = <<>>
  /\ messageQueue = Subscribe(Subscribe(Subscribe(<<>>, "observer"), "controller"), "observer")
  /\ bots = <<>>
  /\ queue = <<>>
  /\ timers = {}
  /\ apiCalls = 0

CreateNormalOrder ==
  /\ Cardinality(OrderUids) < MaxOrders
  /\ Commit(CreateOrder(State, NORMAL))
  /\ UNCHANGED apiCalls

CreateVipOrder ==
  /\ Cardinality(OrderUids) < MaxOrders
  /\ Commit(CreateOrder(State, VIP))
  /\ UNCHANGED apiCalls

Increase ==
  /\ Cardinality(BotUids) < MaxBots
  /\ \E type \in {NORMAL, VIP} : Commit(ControllerIncrease(State, type))
  /\ UNCHANGED apiCalls

Decrease ==
  /\ Commit(ControllerDecrease(State))
  /\ UNCHANGED apiCalls

TickBot(b) ==
  /\ \E t \in timers :
       /\ t[1] = b
       /\ Commit(IntervalCallback(State, t[1], t[2]))
  /\ UNCHANGED apiCalls

Tick == \E b \in BotUids : TickBot(b)

Next ==
  \/ CreateNormalOrder
  \/ CreateVipOrder
  \/ Increase
  \/ Decrease
  \/ Tick

Spec == Init /\ [][Next]_vars

\* The same engine observed from a busy pool: BusyPoolSize NORMAL orders were
\* created and then BusyPoolSize VIP bots added, which leaves bot k running order k
\* with a full countdown. From there one more order may be created, bots tick and
\* the pool is scaled down.
BusyPoolSize == 3

InitBusy ==
  /\ orders = [o \in 0..(BusyPoolSize - 1) |->
                 [orderType |-> NORMAL, status |-> PENDING, counter |-> VipTicks]]
  /\ queueCache = <<>>
  /\ queueVipOrder = <<>>
  /\ queueNormalOrder = <<>>
  /\ queueComplete = <<>>
  /\ messageQueue = Subscribe(Subscribe(Subscribe(<<>>, "observer"), "controller"), "observer")
  /\ bots = [b \in 0..(BusyPoolSize - 1) |->
               [type |-> VIP, status |-> RUN, currentOrder |-> b, counterHandle |-> b,
                isDestroyed |-> FALSE, elapsed |-> 0]]
  /\ queue = [k \in 1..BusyPoolSize |-> k - 1]
  /\ timers = {<<b, b>> : b \in 0..(BusyPoolSize - 1)}
  /\ apiCalls = 0

CreateOrderBusy ==
  /\ Cardinality(OrderUids) < BusyPoolSize + 1
  /\ \E type \in {NORMAL, VIP} : Commit(CreateOrder(State, type))
  /\ UNCHANGED apiCalls

NextBusy ==
  \/ CreateOrderBusy
  \/ Decrease
  \/ Tick

SpecBusy == InitBusy /\ [][NextBusy]_vars

\* The registry's public completeOrder / updateCache called directly by a client, at
\* any state the engine reaches; the run is observed up to MaxApiCalls such calls on.
CallCompleteOrder ==
  /\ apiCalls < MaxApiCalls
  /\ \E o \in OrderUids :
       Commit(OMCompleteOrder(State, o))
  /\ apiCalls' = apiCalls + 1

CallUpdateCache ==
  /\ apiCalls < MaxApiCalls
  /\ \E o \in OrderUids :
       Commit(OMUpdateCache(State, o))
  /\ apiCalls' = apiCalls + 1

EngineStep ==
  /\ apiCalls = 0
  /\ Next

NextApi ==
  \/ EngineStep
  \/ CallCompleteOrder
  \/ CallUpdateCache

SpecApi == Init /\ [][NextApi]_vars

\* ---- state functions used by the properties ----
Managed == Range(queue)

Holders(o) == {k \in 1..Len(queue) : bots[queue[k]].currentOrder = o}

Places(o) ==
  Count(queueCache, o) + Count(queueVipOrder, o) + Count(queueNormalOrder, o)
    + Count(queueComplete, o) + Cardinality(Holders(o))

IdleBots == {b \in Managed : bots[b].status = IDLE}

NoPending == queueCache = <<>> /\ queueVipOrder = <<>> /\ queueNormalOrder = <<>>

NextUid == Cardinality(OrderUids)

CreateStep == Cardinality(DOMAIN orders') = Cardinality(OrderUids) + 1

IncreaseStep == Cardinality(DOMAIN bots') = Cardinality(BotUids) + 1

\* The run of the operation a step of the engine performed, with its trace; steps
\* that are a call of decrease dequeue nothing and publish no ORDER_ADDED.
CreationRun == {CreateOrder(State, type) : type \in {orders'[NextUid].orderType}}

StepRun ==
  IF CreateStep THEN CreationRun
  ELSE IF IncreaseStep
    THEN {ControllerIncrease(State, type) : type \in {bots'[Cardinality(BotUids)].type}}
  ELSE {r \in {IntervalCallback(State, t[1], t[2]) : t \in timers} : Commit(r)}

\* C1: every order ever created is in exactly one of queueCache, queueVipOrder,
\* queueNormalOrder, queueComplete or the currentOrder slot of one managed bot:
\* never duplicated, never lost.
C1_ExactlyOnePlace ==
  /\ \A o \in OrderUids : Places(o) = 1
  /\ \A k1, k2 \in 1..Len(queue) : queue[k1] = queue[k2] => k1 = k2

C1_Witness ==
  /\ queueCache # <<>>
  /\ queueComplete # <<>>
  /\ \E b \in BotUids : bots[b].isDestroyed
  /\ \A o \in OrderUids : Places(o) = 1

\* C2: every call of processNextOrder removes and returns the head of queueCache if
\* it is non-empty, else the head of queueVipOrder, else the head of
\* queueNormalOrder; it returns null, changing nothing, only when all three are empty.
DequeuedAsSpecified(c) ==
  IF c.pre[1] # <<>>
    THEN c.ret = Head(c.pre[1]) /\ c.post = <<Tail(c.pre[1]), c.pre[2], c.pre[3]>>
  ELSE IF c.pre[2] # <<>>
    THEN c.ret = Head(c.pre[2]) /\ c.post = <<c.pre[1], Tail(c.pre[2]), c.pre[3]>>
  ELSE IF c.pre[3] # <<>>
    THEN c.ret = Head(c.pre[3]) /\ c.post = <<c.pre[1], c.pre[2], Tail(c.pre[3])>>
  ELSE c.ret = Null /\ c.post = c.pre

C2_DequeuePriority ==
  [][\A r \in StepRun :
       /\ Commit(r)
       /\ \A i \in 1..Len(r.dqs) :
            /\ DequeuedAsSpecified(r.dqs[i])
            /\ r.dqs[i].ret = Null <=> r.dqs[i].pre = <<<<>>, <<>>, <<>>>>]_vars

\* A VIP order is being run from its first tick while an older NORMAL order waits.
C2_Witness ==
  \E b \in Managed :
    /\ bots[b].currentOrder # Null
    /\ orders[bots[b].currentOrder].orderType = VIP
    /\ queueNormalOrder # <<>>
    /\ Head(queueNormalOrder) < bots[b].currentOrder
    /\ bots[b].elapsed = 0

\* C3: when decrease destroys a bot that holds an order, that order becomes the head
\* of queueCache with status PENDING, is in getOrderList(), and is what the next
\* processNextOrder returns, ahead of every queued VIP and normal order.
DestroysHolder ==
  /\ Len(queue') = Len(queue) - 1
  /\ bots[queue[Len(queue)]].currentOrder # Null

C3_RecoveredFirst ==
  [][DestroysHolder =>
       LET o == bots[queue[Len(queue)]].currentOrder
       IN /\ queueCache' = <<o>> \o queueCache
          /\ orders'[o].status = PENDING
          /\ o \in Range(GetOrderList(State'))
          /\ OMProcessNextOrder(State').order = o
          /\ queueVipOrder' = queueVipOrder
          /\ queueNormalOrder' = queueNormalOrder]_vars

C3_Witness ==
  /\ Len(queueCache) = 2
  /\ queue = <<>>
  /\ \A b \in BotUids : bots[b].isDestroyed

\* C4: a pickup by a bot of class c sets the order's counter to D(c) (VIP 5, NORMAL
\* 10) whatever the order's own type; after k < D(c) ticks of that bot the counter
\* is D(c) - k and the order is still held; the D(c)-th tick makes it COMPLETE,
\* appends it to queueComplete and takes it out of the bot's slot.
CountdownOnSchedule ==
  \A b \in Managed :
    bots[b].currentOrder # Null =>
      /\ bots[b].status = RUN
      /\ bots[b].elapsed \in 0..(Duration(bots[b].type) - 1)
      /\ orders[bots[b].currentOrder].counter = Duration(bots[b].type) - bots[b].elapsed
      /\ orders[bots[b].currentOrder].status = PENDING
      /\ <<b, bots[b].currentOrder>> \in timers

PickedUp(b) ==
  /\ b \in Range(queue')
  /\ bots'[b].currentOrder # Null
  /\ b \in BotUids => bots[b].currentOrder # bots'[b].currentOrder

TickStep(b) == \E t \in timers : t[1] = b /\ Commit(IntervalCallback(State, t[1], t[2]))

C5_NoPendingWhileIdle == IdleBots # {} => NoPending

\* C6: if from some point on the pool keeps at least one bot, and every live timer
\* keeps ticking, then every created order eventually becomes COMPLETE, recovered
\* orders included, with no further order creation needed.
\* Stated in the form a finite run refutes: in a state where the pool has a bot and
\* some order is not COMPLETE, some managed bot has a live timer. In a state
\* without one, no tick is left to fire, so with the pool kept and no order created
\* the order stays PENDING for ever.
C6_NoStrandedOrder ==
  (queue # <<>> /\ \E o \in OrderUids : orders[o].status # COMPLETE) =>
    \E t \in timers : t[1] \in Managed

\* C7: when an order is created while at least one managed bot is IDLE, exactly one
\* bot goes from IDLE to RUN during the call and every other bot keeps its status
\* and current order.
C7_ExactlyOneWakes ==
  [][(CreateStep /\ IdleBots # {}) =>
       \E b \in IdleBots :
         /\ bots'[b].status = RUN
         /\ \A c \in Managed \ {b} :
              /\ bots'[c].status = bots[c].status
              /\ bots'[c].currentOrder = bots[c].currentOrder]_vars

\* C8: completeOrder on an order that is already in queueComplete, and updateCache on
\* an order no bot holds, leave every collection unchanged, so the order still
\* appears exactly once across the four collections.
RepeatedCall ==
  \E o \in OrderUids :
    \/ o \in Range(queueComplete) /\ Commit(OMCompleteOrder(State, o))
    \/ Holders(o) = {} /\ Commit(OMUpdateCache(State, o))

C8_Idempotent ==
  [][(apiCalls' = apiCalls + 1 /\ RepeatedCall) =>
       /\ queueCache' = queueCache
       /\ queueVipOrder' = queueVipOrder
       /\ queueNormalOrder' = queueNormalOrder
       /\ queueComplete' = queueComplete]_vars

Observers == {i \in 1..Len(messageQueue) : messageQueue[i] = "observer"}

ControllerIndex == IndexOf(messageQueue, "controller")

\* C9 as claimed: whatever its registration position, a subscriber invoked with the
\* ORDER_ADDED of a new order finds that order in getOrderList().
C9_AlwaysListed ==
  [][CreateStep =>
       \A r \in CreationRun : \A i \in Observers : r.seen[i] = "listed"]_vars

\* C9 as amended: a subscriber registered before the Controller finds the new order
\* in getOrderList(); one registered after it finds the order either in
\* getOrderList() or, already dequeued by a bot the Controller woke, in the
\* currentOrder slot of a managed bot; the latter needs a bot that was IDLE.
C9_ListedOrHeld ==
  [][CreateStep =>
       \A r \in CreationRun :
         /\ Commit(r)
         /\ \A i \in Observers :
              /\ ORDER_ADDED \in Range(r.delivered[i])
              /\ i < ControllerIndex => r.seen[i] = "listed"
              /\ i > ControllerIndex =>
                   /\ r.seen[i] \in {"listed", "held"}
                   /\ r.seen[i] = "held" =>
                        \E b \in IdleBots : bots'[b].currentOrder = NextUid
                   /\ r.seen[i] = "listed" => NextUid \in Range(GetOrderList(State'))
                   /\ IdleBots = {} => r.seen[i] = "listed"]_vars

\* The newest order went straight to the first bot of a pool that was idle.
C9_Witness ==
  /\ Len(queue) = 2
  /\ NextUid = 1
  /\ bots[queue[1]].currentOrder = 0
  /\ bots[queue[2]].status = IDLE
  /\ \A b \in BotUids : bots[b].counterHandle = bots[b].currentOrder

VipCreated ==
  /\ CreateStep
  /\ orders'[NextUid].orderType = VIP
  /\ NextUid \in Range(GetOrderList(State'))

DecreaseStep == Len(queue') = Len(queue) - 1

Popped == queue[Len(queue)]

\* C11: after destroy() is applied to a bot, whether it was IDLE holding nothing or
\* RUN holding an order, its status is IDLE, its currentOrder is null and its
\* isDestroyed flag is set.
C11_DestroyedState ==
  [][DecreaseStep =>
       /\ bots'[Popped].status = IDLE
       /\ bots'[Popped].currentOrder = Null
       /\ bots'[Popped].isDestroyed]_vars

\* The bots decrease has destroyed: created, and no longer in Controller.queue.
Destroyed == BotUids \ Managed

\* C12: once decrease has destroyed a bot, no later step makes it hold an order,
\* decrement a counter, complete an order or publish ORDER_COUNTER: it has no live
\* timer, no step is a tick of it, its fields never change again and it never
\* returns to Controller.queue.
C12_DestroyedBotInert ==
  /\ [](\A t \in timers : t[1] \notin Destroyed)
  /\ [][\A b \in Destroyed :
          /\ ~TickStep(b)
          /\ bots'[b] = bots[b]
          /\ bots'[b].currentOrder = Null
          /\ b \notin Range(queue')]_vars

\* A bot was destroyed while running, and its order has since been finished by another.
C12_Witness ==
  /\ \E b \in Destroyed : bots[b].isDestroyed
  /\ queueCache = <<>>
  /\ Len(queueComplete) = 2

\* C13: decrease removes exactly the most recently added bot still in
\* Controller.queue and destroys it (its timer is cancelled, it holds nothing),
\* leaving every other bot and their order unchanged; on an empty queue it changes
\* nothing; getBots() always lists the remaining bots in creation order, with
\* strictly increasing uids.
C13_DecreasePopsNewest ==
  /\ [](/\ \A k1, k2 \in 1..Len(queue) : k1 < k2 => queue[k1] < queue[k2]
        /\ queue = <<>> => ControllerDecrease(State) = State)
  /\ [][Len(queue') < Len(queue) =>
          /\ queue' = Pop(queue)
          /\ \A c \in Range(queue) : Popped >= c
          /\ \A c \in Range(queue') : bots'[c] = bots[c]
          /\ bots'[Popped].currentOrder = Null
          /\ \A t \in timers' : t[1] # Popped
          /\ timers' = timers \ {<<Popped, bots[Popped].counterHandle>>}]_vars

\* The newer of two bots was removed, the older one is still managed and running.
C13_Witness ==
  /\ queue = <<0>>
  /\ 1 \in BotUids
  /\ bots[0].status = RUN
  /\ bots[0].elapsed > 0

\* C14: orders created by any interleaving of createNormalOrder and createVipOrder
\* get the uids 0, 1, 2, ... in creation order, from one counter shared by both
\* categories: unique, strictly increasing, and an order's uid and orderType
\* never change afterwards.
C14_UidsInCreationOrder ==
  /\ [](OrderUids = 0..(Cardinality(OrderUids) - 1))
  /\ [][/\ \A o \in OrderUids :
             /\ o \in DOMAIN orders'
             /\ orders'[o].orderType = orders[o].orderType
        /\ CreateStep =>
             /\ \A r \in CreationRun : Commit(r)
             /\ DOMAIN orders' = OrderUids \cup {NextUid}
             /\ NextUid \notin OrderUids
             /\ \A o \in OrderUids : o < NextUid
             /\ orders'[NextUid].orderType \in {NORMAL, VIP}
        /\ ~CreateStep => DOMAIN orders' = OrderUids]_vars

\* A VIP order created first has uid 0, a NORMAL order created after it has uid 1.
C14_Witness ==
  /\ OrderUids = {0, 1}
  /\ orders[0].orderType = VIP
  /\ orders[1].orderType = NORMAL
  /\ queueComplete = <<0, 1>>

HeldOrders == {bots[b].currentOrder : b \in Managed} \ {Null}

\* C15: an order is PENDING from creation, becomes COMPLETE exactly once and never
\* reverts. Every order in queueCache, queueVipOrder or queueNormalOrder or held by
\* a bot is PENDING and every order in queueComplete is COMPLETE; queueComplete
\* only grows by appending, so no order ever leaves it.
C15_StatusMonotone ==
  /\ [](/\ \A o \in Range(queueCache) \cup Range(queueVipOrder)
                  \cup Range(queueNormalOrder) \cup HeldOrders :
             orders[o].status = PENDING
        /\ \A o \in Range(queueComplete) :
             orders[o].status = COMPLETE /\ Count(queueComplete, o) = 1
        /\ \A o \in OrderUids :
             orders[o].status = COMPLETE => o \in Range(queueComplete))
  /\ [][/\ \A o \in OrderUids :
             orders[o].status = COMPLETE => orders'[o].status = COMPLETE
        /\ \A o \in DOMAIN orders' \ OrderUids : orders'[o].status = PENDING
        /\ \/ queueComplete' = queueComplete
           \/ \E o \in OrderUids :
                /\ orders[o].status = PENDING
                /\ queueComplete' = Append(queueComplete, o)]_vars

\* One order is completed while another is still being worked on.
C15_Witness ==
  /\ queueComplete = <<1>>
  /\ HeldOrders = {0}
  /\ orders[0].status = PENDING
  /\ orders[1].status = COMPLETE

C17_RecoveryLifo ==
  [][(DestroysHolder /\ queueCache # <<>>) =>
       LET later == bots[Popped].currentOrder
           first == OMProcessNextOrder(State')
           second == OMProcessNextOrder(first.st)
       IN /\ first.order = later
          /\ second.order = Head(queueCache)
          /\ IndexOf(queueCache', later) < IndexOf(queueCache', Head(queueCache))
          /\ Tail(queueCache') = queueCache]_vars

\* Bot 1 was destroyed first, then bot 0: order 0, recovered later, is ahead of order 1.
C17_Witness ==
  /\ queueCache = <<0, 1>>
  /\ bots[0].isDestroyed
  /\ bots[1].isDestroyed
  /\ queue = <<>>

\* The order the priority rule selects in the current state, Null when nothing waits.
FirstByPriority ==
  IF queueCache # <<>> THEN Head(queueCache)
  ELSE IF queueVipOrder # <<>> THEN Head(queueVipOrder)
  ELSE IF queueNormalOrder # <<>> THEN Head(queueNormalOrder)
  ELSE Null

\* C18: increase(c) appends one new bot of class c at the end of Controller.queue;
\* when the call returns the new bot is RUN and holds the order the priority rule
\* selects if a pending queue was non-empty before the call, and is IDLE holding
\* nothing otherwise. No other bot's status or order changes.
C18_IncreaseAppendsAndPicksUp ==
  [][IncreaseStep =>
       LET b == Cardinality(BotUids)
       IN /\ \A r \in StepRun : Commit(r)
          /\ DOMAIN bots' = BotUids \cup {b}
          /\ queue' = Append(queue, b)
          /\ bots'[b].type \in {NORMAL, VIP}
          /\ ~bots'[b].isDestroyed
          /\ \A c \in BotUids : bots'[c] = bots[c]
          /\ IF NoPending
               THEN /\ bots'[b].status = IDLE
                    /\ bots'[b].currentOrder = Null
                    /\ timers' = timers
               ELSE /\ bots'[b].status = RUN
                    /\ bots'[b].currentOrder = FirstByPriority
                    /\ orders'[FirstByPriority].counter = Duration(bots'[b].type)
                    /\ timers' = timers \cup {<<b, FirstByPriority>>}]_vars

\* A second bot was added beside a running one and took the waiting order at once.
C18_Witness ==
  /\ queue = <<0, 1>>
  /\ bots[0].elapsed > 0
  /\ bots[1].currentOrder = 1
  /\ bots[1].elapsed = 0
  /\ bots[1].type = NORMAL

\* The tick of bot b that brings the counter of its order to 0.
CompletionStep(b) ==
  /\ bots[b].currentOrder # Null
  /\ orders[bots[b].currentOrder].counter = 1
  /\ TickStep(b)

\* C19: in the step in which a bot's countdown reaches 0, after completing its order
\* the bot dequeues the next order by priority if a pending queue is non-empty and
\* stays RUN with a fresh full countdown; it becomes IDLE after a completion only
\* when all three pending queues are empty.
C19_AutoContinue ==
  [][\A b \in Managed :
       CompletionStep(b) =>
         /\ orders'[bots[b].currentOrder].status = COMPLETE
         /\ IF NoPending
              THEN /\ bots'[b].status = IDLE
                   /\ bots'[b].currentOrder = Null
                   /\ \A t \in timers' : t[1] # b
                   /\ queueCache' = <<>> /\ queueVipOrder' = <<>> /\ queueNormalOrder' = <<>>
              ELSE /\ bots'[b].status = RUN
                   /\ bots'[b].currentOrder = FirstByPriority
                   /\ orders'[FirstByPriority].counter = Duration(bots[b].type)
                   /\ bots'[b].elapsed = 0
                   /\ {t \in timers' : t[1] = b} = {<<b, FirstByPriority>>}
                   /\ Pending(State') = Pending(ShiftNext(State).st)
                   /\ FirstByPriority \notin Range(GetOrderList(State'))]_vars

\* The only bot finished order 0 and went straight on to order 1.
C19_Witness ==
  /\ BotUids = {0}
  /\ queueComplete = <<0>>
  /\ bots[0].currentOrder = 1
  /\ bots[0].elapsed = 0
  /\ bots[0].status = RUN

\* Every order that left q in the step was ahead of every order that stayed, and q
\* itself is in creation order.
LeavesFromFront(q, qnext) ==
  /\ \A i, j \in 1..Len(q) : i < j => q[i] < q[j]
  /\ \A i, j \in 1..Len(q) :
       (i < j /\ q[j] \notin Range(qnext)) => q[i] \notin Range(qnext)

\* A call of processNextOrder that served the VIP or the normal queue.
FromCategoryQueue(c) == c.ret # Null /\ c.pre[1] = <<>>

\* C20: first in, first out within a category: an order waiting in queueVipOrder
\* (queueNormalOrder) is never picked up while an order of that queue created
\* earlier is still waiting in it; orders never interrupted are picked up, within
\* a category, in creation order.
C20_FifoWithinCategory ==
  [][/\ LeavesFromFront(queueVipOrder, queueVipOrder')
     /\ LeavesFromFront(queueNormalOrder, queueNormalOrder')
     /\ \A r \in StepRun :
          \A i \in 1..Len(r.dqs) :
            FromCategoryQueue(r.dqs[i]) =>
              \A o \in Range(r.dqs[i].pre[2]) \cup Range(r.dqs[i].pre[3]) :
                orders'[o].orderType = orders'[r.dqs[i].ret].orderType
                  => r.dqs[i].ret <= o]_vars

\* Two NORMAL orders: the older one is being worked on, the newer one waits.
C20_Witness ==
  /\ queueNormalOrder = <<1>>
  /\ HeldOrders = {0}
  /\ orders[0].orderType = NORMAL
  /\ queueCache = <<>>

\* C21: every order's counter is an integer in 0..10, never negative; it is 0 for
\* every order in queueComplete and for every order never picked up (those still in
\* queueVipOrder or queueNormalOrder), and at least 1 for every order a bot holds.
C21_CounterRange ==
  /\ \A o \in OrderUids : orders[o].counter \in 0..NormalTicks
  /\ \A o \in Range(queueComplete) : orders[o].counter = 0
  /\ \A o \in Range(queueVipOrder) \cup Range(queueNormalOrder) : orders[o].counter = 0
  /\ \A o \in HeldOrders : orders[o].counter >= 1
  /\ \A o \in Range(queueCache) : orders[o].counter >= 1

\* A recovered order waits with part of its countdown left, another is completed.
C21_Witness ==
  /\ \E o \in Range(queueCache) : orders[o].counter \in 2..(NormalTicks - 1)
  /\ \E o \in Range(queueComplete) : orders[o].counter = 0
  /\ \E b \in Managed : bots[b].type = NORMAL

\* The run of the operation a step performed, a call of decrease included.
OperationRun == IF DecreaseStep THEN {ControllerDecrease(State)} ELSE StepRun

Subscribers == 1..Len(messageQueue)

\* C22 as claimed: for any two subscribers and any createNormalOrder,
\* createVipOrder, increase, decrease or tick, the sequence of event types
\* delivered to one equals the sequence delivered to the other.
C22_SameSequence ==
  [][\A r \in OperationRun :
       \A i, j \in Subscribers : r.delivered[i] = r.delivered[j]]_vars

\* C22 as amended: every subscriber receives the same events the same number of
\* times; two subscribers on the same side of the Controller's subscription
\* receive the same sequence, and so do any two during increase, decrease and a
\* tick. During a create call a subscriber registered before the Controller, and
\* the Controller, receive ORDER_ADDED first; one registered after it receives
\* ORDER_ADDED last, after the ORDER_UPDATED and ORDER_COUNTER of the pickups the
\* Controller's handler made.
C22_SameSequenceBySide ==
  [][\A r \in OperationRun :
       /\ Commit(r)
       /\ ~CreateStep =>
            \A i \in Subscribers : r.delivered[i] = r.delivered[1]
       /\ CreateStep =>
            /\ \A i, j \in Subscribers :
                 /\ \A ev \in {ORDER_ADDED, ORDER_UPDATED, ORDER_COUNTER} :
                      Count(r.delivered[i], ev) = Count(r.delivered[j], ev)
                 /\ (i <= ControllerIndex <=> j <= ControllerIndex)
                      => r.delivered[i] = r.delivered[j]
            /\ \A i \in Subscribers :
                 /\ Count(r.delivered[i], ORDER_ADDED) = 1
                 /\ i <= ControllerIndex => Head(r.delivered[i]) = ORDER_ADDED
                 /\ i > ControllerIndex =>
                      r.delivered[i][Len(r.delivered[i])] = ORDER_ADDED
                 /\ IdleBots = {} => r.delivered[i] = <<ORDER_ADDED>>]_vars

\* The only bot was idle when a VIP order was created and picked it up in the call.
C22_Witness ==
  /\ queue = <<0>>
  /\ OrderUids = {0}
  /\ orders[0].orderType = VIP
  /\ bots[0].currentOrder = 0
  /\ bots[0].elapsed = 0
  /\ orders[0].counter = Duration(bots[0].type)

TimersOf(b) == {t \in timers : t[1] = b}

\* C23: for every managed bot, between steps: its status is RUN if and only if its
\* currentOrder is set, if and only if it has a live timer; a bot never has more
\* than one live timer (the one of the order it holds) and never holds more than
\* one order.
C23_RunIffOrderIffTimer ==
  \A b \in Managed :
    /\ bots[b].status \in {RUN, IDLE}
    /\ bots[b].status = RUN <=> bots[b].currentOrder # Null
    /\ bots[b].currentOrder # Null <=> TimersOf(b) # {}
    /\ Cardinality(TimersOf(b)) <= 1
    /\ bots[b].currentOrder # Null =>
         /\ bots[b].currentOrder \in OrderUids
         /\ TimersOf(b) = {<<b, bots[b].currentOrder>>}

\* One bot is running an order on its timer, the other has finished and is idle.
C23_Witness ==
  /\ Len(queue) = 2
  /\ queueComplete # <<>>
  /\ \E b \in Managed : bots[b].status = RUN /\ TimersOf(b) # {}
  /\ \E b \in Managed :
       bots[b].status = IDLE /\ bots[b].counterHandle # Null /\ TimersOf(b) = {}

IdlePositions == {k \in 1..Len(queue) : bots[queue[k]].status = IDLE}

IdleRank(k) == Cardinality({j \in IdlePositions : j <= k})

\* The pending orders, in the order processNextOrder hands them out, once the
\* order created in this step has been pushed on its queue.
PendingAfterPush ==
  queueCache
    \o (IF orders'[NextUid].orderType = VIP
          THEN Append(queueVipOrder, NextUid) ELSE queueVipOrder)
    \o (IF orders'[NextUid].orderType = NORMAL
          THEN Append(queueNormalOrder, NextUid) ELSE queueNormalOrder)

\* C24: when ORDER_ADDED wakes several IDLE bots and fewer orders than idle bots are
\* pending, the orders go to the IDLE bots earliest in Controller.queue, one order
\* each in priority order, and the remaining IDLE bots stay IDLE, unchanged, with
\* no timer started; bots that were running are not touched.
C24_WakeInQueueOrder ==
  [][CreateStep =>
       \A k \in 1..Len(queue) :
         LET b == queue[k]
         IN IF k \notin IdlePositions
              THEN bots'[b] = bots[b]
            ELSE IF IdleRank(k) <= Len(PendingAfterPush)
              THEN /\ bots'[b].status = RUN
                   /\ bots'[b].currentOrder = PendingAfterPush[IdleRank(k)]
                   /\ {t \in timers' : t[1] = b} = {<<b, bots'[b].currentOrder>>}
            ELSE /\ bots'[b] = bots[b]
                 /\ bots'[b].status = IDLE
                 /\ {t \in timers' : t[1] = b} = {}]_vars

\* Two bots were idle when the only order was created: the older bot took it.
C24_Witness ==
  /\ queue = <<0, 1>>
  /\ OrderUids = {0}
  /\ bots[0].status = RUN
  /\ bots[0].elapsed = 0
  /\ bots[1].status = IDLE
  /\ timers = {<<0, 0>>}

\* The orders of q that are still in qnext keep their relative order, and qnext
\* holds nothing else but the order created in the step.
KeepsQueuedOrder(q, qnext) ==
  /\ Range(qnext) \subseteq Range(q) \cup {NextUid}
  /\ \A x, y \in Range(q) \cap Range(qnext) :
       IndexOf(q, x) < IndexOf(q, y) => IndexOf(qnext, x) < IndexOf(qnext, y)

QueuedNext == Range(queueCache') \cup Range(queueVipOrder') \cup Range(queueNormalOrder')

\* C25: frame conditions. A tick of bot w changes no other bot's status, order or
\* countdown and no countdown of an order that is queued; decrease applied to an
\* IDLE bot changes no collection of the registry and publishes no event;
\* createNormalOrder and createVipOrder leave queueComplete and the order of the
\* orders already queued unchanged.
C25_FrameConditions ==
  [][/\ (~CreateStep /\ ~IncreaseStep /\ ~DecreaseStep) =>
          \A t \in timers :
            Commit(IntervalCallback(State, t[1], t[2])) =>
              /\ \A c \in BotUids \ {t[1]} :
                   /\ bots'[c] = bots[c]
                   /\ bots[c].currentOrder # Null =>
                        orders'[bots[c].currentOrder] = orders[bots[c].currentOrder]
              /\ \A o \in QueuedNext : orders'[o] = orders[o]
              /\ \A o \in Range(queueComplete) : orders'[o] = orders[o]
     /\ (DecreaseStep /\ bots[Popped].currentOrder = Null) =>
          /\ bots[Popped].status = IDLE
          /\ orders' = orders
          /\ Pending(State') = Pending(State)
          /\ queueComplete' = queueComplete
          /\ \A i \in Subscribers : ControllerDecrease(State).delivered[i] = <<>>
     /\ CreateStep =>
          /\ queueComplete' = queueComplete
          /\ KeepsQueuedOrder(queueCache, queueCache')
          /\ KeepsQueuedOrder(queueVipOrder, queueVipOrder')
          /\ KeepsQueuedOrder(queueNormalOrder, queueNormalOrder')
          /\ \A o \in QueuedNext \ {NextUid} : orders'[o] = orders[o]]_vars

\* The only bot finished an order, went idle and was removed; a later order waits.
C25_Witness ==
  /\ queue = <<>>
  /\ \E b \in BotUids : ~bots[b].isDestroyed /\ bots[b].counterHandle # Null
  /\ queueComplete # <<>>
  /\ queueNormalOrder # <<>>

====
